---------------------------- MODULE Spec2Model ----------------------------
(* Model of app.py, the Universal Feature Comparator API: the key normaliser,  *)
(* the two marketplace adapters, the generic extractor and both definitions of *)
(* the /compare handler.                                                       *)
(*                                                                             *)
(* A Python str is a sequence of one-character strings, so that lower(),       *)
(* strip(), title(), startswith() and the `in` substring test are computed     *)
(* character by character.  A Python dict is a function whose domain is its    *)
(* set of keys.                                                                *)
EXTENDS Integers, Sequences, FiniteSets, TLC

VARIABLES pc, handler, payload, fetchLog, result1, result2, response, arg, ret

vars == <<pc, handler, payload, fetchLog, result1, result2, response, arg, ret>>

(***************************************************************************)
(* Python str primitives                                                   *)
(***************************************************************************)
UpperCase == <<"A", "B", "C", "D", "E", "F", "G", "H", "I", "J", "K", "L", "M", "N", "O", "P", "Q", "R", "S", "T", "U", "V", "W", "X", "Y", "Z">>

LowerCase == <<"a", "b", "c", "d", "e", "f", "g", "h", "i", "j", "k", "l", "m", "n", "o", "p", "q", "r", "s", "t", "u", "v", "w", "x", "y", "z">>

Whitespace == {" ", "\t", "\n"}

IsUpper(c) == \E i \in 1..Len(UpperCase) : UpperCase[i] = c

IsLower(c) == \E i \in 1..Len(LowerCase) : LowerCase[i] = c

IsCased(c) == IsUpper(c) \/ IsLower(c)

char_lower(c) ==
    IF IsUpper(c) THEN LowerCase[CHOOSE i \in 1..Len(UpperCase) : UpperCase[i] = c] ELSE c

char_upper(c) ==
    IF IsLower(c) THEN UpperCase[CHOOSE i \in 1..Len(LowerCase) : LowerCase[i] = c] ELSE c

SetMin(S) == CHOOSE x \in S : \A y \in S : x <= y

SetMax(S) == CHOOSE x \in S : \A y \in S : y <= x

\* str.lower()
str_lower(s) == [i \in 1..Len(s) |-> char_lower(s[i])]

\* str.strip(): leading and trailing whitespace removed
str_strip(s) ==
    LET keep == {i \in 1..Len(s) : s[i] \notin Whitespace}
    IN  IF keep = {} THEN <<>> ELSE SubSeq(s, SetMin(keep), SetMax(keep))

\* str.title(): a cased character is upper-cased when it starts a run of cased
\* characters and lower-cased inside one
str_title(s) ==
    [i \in 1..Len(s) |->
        IF i = 1 \/ ~IsCased(s[i - 1]) THEN char_upper(s[i]) ELSE char_lower(s[i])]

\* str.startswith(prefix)
str_startswith(s, prefix) ==
    Len(prefix) <= Len(s) /\ SubSeq(s, 1, Len(prefix)) = prefix

\* `sub in s` for two strs
str_contains(sub, s) ==
    \E i \in 0..(Len(s) - Len(sub)) : SubSeq(s, i + 1, i + Len(sub)) = sub

(***************************************************************************)
(* Python dict primitives                                                  *)
(***************************************************************************)
EmptyDict == [k \in {} |-> <<>>]

DictSet(d, k, v) == [x \in (DOMAIN d) \cup {k} |-> IF x = k THEN v ELSE d[x]]

\* None: a one-token sequence, which no str (a sequence of single characters) equals
None == <<"None">>

(***************************************************************************)
(* is_valid_url, normalize_key                                             *)
(***************************************************************************)
is_valid_url(url) ==
    str_startswith(url, <<"h", "t", "t", "p", ":", "/", "/">>) \/ str_startswith(url, <<"h", "t", "t", "p", "s", ":", "/", "/">>)

\* the mapping literal of normalize_key, in insertion order
mapping ==
    << <<<<"m", "e", "m", "o", "r", "y">>, <<"R", "A", "M">>>>,
       <<<<"r", "a", "m">>, <<"R", "A", "M">>>>,
       <<<<"i", "n", "t", "e", "r", "n", "a", "l", " ", "s", "t", "o", "r", "a", "g", "e">>, <<"S", "t", "o", "r", "a", "g", "e">>>>,
       <<<<"s", "t", "o", "r", "a", "g", "e">>, <<"S", "t", "o", "r", "a", "g", "e">>>>,
       <<<<"b", "a", "t", "t", "e", "r", "y", " ", "c", "a", "p", "a", "c", "i", "t", "y">>, <<"B", "a", "t", "t", "e", "r", "y">>>>,
       <<<<"b", "a", "t", "t", "e", "r", "y">>, <<"B", "a", "t", "t", "e", "r", "y">>>>,
       <<<<"c", "a", "m", "e", "r", "a">>, <<"C", "a", "m", "e", "r", "a">>>>,
       <<<<"m", "a", "i", "n", " ", "c", "a", "m", "e", "r", "a">>, <<"C", "a", "m", "e", "r", "a">>>>,
       <<<<"d", "i", "s", "p", "l", "a", "y">>, <<"D", "i", "s", "p", "l", "a", "y">>>>,
       <<<<"s", "c", "r", "e", "e", "n", " ", "s", "i", "z", "e">>, <<"D", "i", "s", "p", "l", "a", "y">>>>,
       <<<<"p", "r", "i", "c", "e">>, <<"P", "r", "i", "c", "e">>>>,
       <<<<"p", "r", "o", "d", "u", "c", "t">>, <<"P", "r", "o", "d", "u", "c", "t">>>> >>

\* normalize_scan with the loop running to the end of the table, the last
\* matching entry winning
normalize_scan_last_match(key, i) ==
    LET hits == {j \in i..Len(mapping) : str_contains(mapping[j][1], key)}
    IN  IF hits = {} THEN str_title(key) ELSE mapping[SetMax(hits)][2]

\* normalize_scan with `return key` for the final `return key.title()`
RECURSIVE normalize_scan_no_title(_, _)
normalize_scan_no_title(key, i) ==
    IF i > Len(mapping) THEN key
    ELSE IF str_contains(mapping[i][1], key) THEN mapping[i][2]
    ELSE normalize_scan_no_title(key, i + 1)

\* the loop `for k in mapping: if k in key: return mapping[k]`, from entry i on,
\* followed by `return key.title()`
RECURSIVE normalize_scan(_, _)
normalize_scan(key, i) ==
    IF i > Len(mapping) THEN str_title(key)
    ELSE IF str_contains(mapping[i][1], key) THEN mapping[i][2]
    ELSE normalize_scan(key, i + 1)

\* normalize_key without the .strip()
normalize_key_no_strip(key) == normalize_scan(str_lower(key), 1)

normalize_key(key) == normalize_scan(str_strip(str_lower(key)), 1)


(***************************************************************************)
(* Collaborator results.  An element looked up with find(..., first=True)  *)
(* or soup.find(...) is [present, text]; a fetch either raises or yields a *)
(* queryable document.                                                     *)
(***************************************************************************)
Absent == [present |-> FALSE, text |-> <<>>]

Element(t) == [present |-> TRUE, text |-> t]

ERROR == <<"e", "r", "r", "o", "r">>

PRODUCT == <<"P", "r", "o", "d", "u", "c", "t">>

PRICE == <<"P", "r", "i", "c", "e">>

NA == <<"N", "/", "A">>

\* the dict literal {'error': msg}
ErrorDict(msg) == [k \in {ERROR} |-> msg]

\* f'Error scraping {url}: {str(e)}' and f'Failed to fetch {url}: {str(e)}'
ErrorScraping(url, e) == <<"Error scraping ">> \o url \o <<": ", e>>

FailedToFetch(url, e) == <<"Failed to fetch ">> \o url \o <<": ", e>>

(***************************************************************************)
(* scrape_dynamic_features                                                 *)
(***************************************************************************)
\* amazon_specs storing each row under its raw label
RECURSIVE amazon_specs_raw_label(_, _, _)
amazon_specs_raw_label(data, specs, i) ==
    IF i > Len(specs) THEN data
    ELSE LET key_el == specs[i].th
             val_el == specs[i].td
         IN  IF key_el.present /\ val_el.present
             THEN amazon_specs_raw_label(DictSet(data, str_strip(key_el.text),
                                                 str_strip(val_el.text)),
                                         specs, i + 1)
             ELSE amazon_specs_raw_label(data, specs, i + 1)

\* amazon branch: `for spec in specs`, from row i on
RECURSIVE amazon_specs(_, _, _)
amazon_specs(data, specs, i) ==
    IF i > Len(specs) THEN data
    ELSE LET key_el == specs[i].th
             val_el == specs[i].td
         IN  IF key_el.present /\ val_el.present
             THEN amazon_specs(DictSet(data, normalize_key(str_strip(key_el.text)),
                                       str_strip(val_el.text)),
                               specs, i + 1)
             ELSE amazon_specs(data, specs, i + 1)

\* flipkart branch: `for row in rows` of one section, from row j on
RECURSIVE flipkart_rows(_, _, _)
flipkart_rows(data, rows, j) ==
    IF j > Len(rows) THEN data
    ELSE LET cells == rows[j]
         IN  IF Len(cells) = 2
             THEN flipkart_rows(DictSet(data, normalize_key(str_strip(cells[1])),
                                        str_strip(cells[2])),
                                rows, j + 1)
             ELSE flipkart_rows(data, rows, j + 1)

\* flipkart branch: `for section in specs`, from section i on
RECURSIVE flipkart_sections(_, _, _)
flipkart_sections(data, specs, i) ==
    IF i > Len(specs) THEN data
    ELSE flipkart_sections(flipkart_rows(data, specs[i], 1), specs, i + 1)

\* data['Product'] and data['Price'] of either branch
title_and_price(title, price) ==
    DictSet(DictSet(EmptyDict, PRODUCT, IF title.present THEN str_strip(title.text) ELSE NA),
            PRICE, IF price.present THEN str_strip(price.text) ELSE NA)

\* out is what session.get(url) and r.html.render(timeout=20) did: raised, or
\* the rendered r.html as the results of the selectors the function queries
scrape_dynamic_features(url, out) ==
    IF out.raised THEN ErrorDict(ErrorScraping(url, out.exc))
    ELSE IF str_contains(<<"a", "m", "a", "z", "o", "n">>, url)
         THEN amazon_specs(title_and_price(out.html.productTitle, out.html.a_price),
                           out.html.techSpec, 1)
    ELSE IF str_contains(<<"f", "l", "i", "p", "k", "a", "r", "t">>, url)
         THEN flipkart_sections(title_and_price(out.html.span_B_NuCI, out.html.div_30jeq3),
                                out.html.div_1UhVsV, 1)
    ELSE ErrorDict(<<"Unsupported platform">>)


(***************************************************************************)
(* scrape_features                                                         *)
(***************************************************************************)
Digits == <<"0", "1", "2", "3", "4", "5", "6", "7", "8", "9">>

\* str(n) for a non-negative int
RECURSIVE int_str(_)
int_str(n) == IF n < 10 THEN <<Digits[n + 1]>> ELSE int_str(n \div 10) \o <<Digits[(n % 10) + 1]>>

\* sep.join(items)
RECURSIVE str_join(_, _)
str_join(sep, items) ==
    IF items = <<>> THEN <<>>
    ELSE IF Len(items) = 1 THEN items[1]
    ELSE items[1] \o sep \o str_join(sep, Tail(items))

\* s[:n]
Prefix(s, n) == SubSeq(s, 1, IF Len(s) < n THEN Len(s) ELSE n)

DescLimit == 200

ListLimit == 3

ItemLimit == 5

\* extract_text, PRICE_SELECTORS and DESC_SELECTORS are bound nowhere in the
\* module: evaluating the call raises NameError on its first name
extract_text(soup, selectors, name) ==
    [raised |-> TRUE, exc |-> "name 'extract_text' is not defined", value |-> None]

\* `for i, ul in enumerate(soup.find_all(['ul', 'ol'])[:3])`, from list i on
RECURSIVE feature_lists(_, _, _)
feature_lists(features, lists, i) ==
    IF i > Len(lists) THEN features
    ELSE LET items == Prefix([j \in 1..Len(lists[i]) |-> str_strip(lists[i][j])], ItemLimit)
         IN  IF items # <<>>
             THEN feature_lists(DictSet(features, <<"F", "e", "a", "t", "u", "r", "e", " ", "L", "i", "s", "t", " ">> \o int_str(i),
                                        str_join(<<",", " ">>, items)),
                                lists, i + 1)
             ELSE feature_lists(features, lists, i + 1)

\* lines 155-185, reached only when both extract_text calls return
scrape_features_tail(url, out, features, price, description0) ==
    LET soup == out.soup
        f2 == IF price # None /\ price # <<>> THEN DictSet(features, PRICE, price) ELSE features
        content == IF soup.meta.present THEN soup.meta.text ELSE None
        description ==
            IF description0 # None /\ description0 # <<>> THEN description0
            ELSE IF content # None THEN Prefix(content, DescLimit) \o <<".", ".", ".">>
            ELSE <<"N", "o", " ", "d", "e", "s", "c", "r", "i", "p", "t", "i", "o", "n", " ", "f", "o", "u", "n", "d">>
        f3 == DictSet(f2, <<"D", "e", "s", "c", "r", "i", "p", "t", "i", "o", "n">>, description)
        f4 == IF Cardinality(DOMAIN f3) <= 1
              THEN feature_lists(f3, Prefix(soup.lists, ListLimit), 1)
              ELSE f3
    IN  IF DOMAIN f4 = {}
        THEN DictSet(DictSet(DictSet(EmptyDict, <<"T", "i", "t", "l", "e">>,
                        IF soup.title.present THEN str_strip(soup.title.text)
                        ELSE <<"N", "o", " ", "t", "i", "t", "l", "e", " ", "f", "o", "u", "n", "d">>),
                     <<"U", "R", "L">>, url),
                     <<"C", "o", "n", "t", "e", "n", "t", " ", "L", "e", "n", "g", "t", "h">>, int_str(out.nbytes) \o <<" ", "b", "y", "t", "e", "s">>)
        ELSE f4

\* out is what requests.get(url, ...) and raise_for_status() did: raised a
\* RequestException, or the parsed soup
scrape_features(url, out) ==
    IF out.raised THEN ErrorDict(FailedToFetch(url, out.exc))
    ELSE LET soup == out.soup
             features == IF soup.h1.present
                         THEN DictSet(EmptyDict, PRODUCT, str_strip(soup.h1.text))
                         ELSE EmptyDict
             price == extract_text(soup, "PRICE_SELECTORS", "Price")
         IN  IF price.raised THEN ErrorDict(ErrorScraping(url, price.exc))
             ELSE LET description == extract_text(soup, "DESC_SELECTORS", "Description")
                  IN  IF description.raised
                      THEN ErrorDict(ErrorScraping(url, description.exc))
                      ELSE scrape_features_tail(url, out, features, price.value,
                                                description.value)


(***************************************************************************)
(* compare: lines 98-119 and, defined again, lines 194-214.  The two       *)
(* definitions differ in one line only, the choice of the scrape function. *)
(***************************************************************************)
\* data.get(k)
dict_get(d, k) == IF k \in DOMAIN d THEN d[k] ELSE None

Reply(status, body) == [status |-> status, body |-> body]

\* compare_validate with `or` for the `and` of the scheme test
compare_validate_either_scheme(data) ==
    IF data.none \/ DOMAIN data.obj = {}
    THEN [passed |-> FALSE, reply |-> Reply(400, [error |-> <<"Missing JSON payload">>])]
    ELSE LET url1 == dict_get(data.obj, "url1")
             url2 == dict_get(data.obj, "url2")
         IN  IF ~(url1 # None /\ url1 # <<>> /\ url2 # None /\ url2 # <<>>)
             THEN [passed |-> FALSE,
                   reply |-> Reply(400, [error |-> <<"Both URLs are required">>])]
             ELSE IF ~(is_valid_url(url1) \/ is_valid_url(url2))
             THEN [passed |-> FALSE,
                   reply |-> Reply(400,
                       [error |-> <<"URLs must start with http:// or https://">>])]
             ELSE [passed |-> TRUE, reply |-> Reply(200, EmptyDict)]

\* lines 100-108 (196-204): the reply of a rejected request, or passed
compare_validate(data) ==
    IF data.none \/ DOMAIN data.obj = {}
    THEN [passed |-> FALSE, reply |-> Reply(400, [error |-> <<"Missing JSON payload">>])]
    ELSE LET url1 == dict_get(data.obj, "url1")
             url2 == dict_get(data.obj, "url2")
         IN  IF ~(url1 # None /\ url1 # <<>> /\ url2 # None /\ url2 # <<>>)
             THEN [passed |-> FALSE,
                   reply |-> Reply(400, [error |-> <<"Both URLs are required">>])]
             ELSE IF ~(is_valid_url(url1) /\ is_valid_url(url2))
             THEN [passed |-> FALSE,
                   reply |-> Reply(400,
                       [error |-> <<"URLs must start with http:// or https://">>])]
             ELSE [passed |-> TRUE, reply |-> Reply(200, EmptyDict)]

\* lines 111-112: the condition that selects scrape_dynamic_features
compare_is_dynamic(url) == str_contains(<<"a", "m", "a", "z", "o", "n">>, url) \/ str_contains(<<"f", "l", "i", "p", "k", "a", "r", "t">>, url)

\* line 207: every URL goes to scrape_features
compare_redefined_is_dynamic(url) == FALSE

\* compare_reply without the test of result2
compare_reply_first_only(r1, r2) ==
    IF ERROR \in DOMAIN r1 THEN Reply(400, [error |-> r1[ERROR]])
    ELSE Reply(200, [data1 |-> r1, data2 |-> r2])

\* lines 114-119 (209-214)
compare_reply(r1, r2) ==
    IF ERROR \in DOMAIN r1 THEN Reply(400, [error |-> r1[ERROR]])
    ELSE IF ERROR \in DOMAIN r2 THEN Reply(400, [error |-> r2[ERROR]])
    ELSE Reply(200, [data1 |-> r1, data2 |-> r2])

(***************************************************************************)
(* Requests and what the network answers                                   *)
(***************************************************************************)
FtpUrl == <<"f", "t", "p", ":", "/", "/", "x">>

GenericUrl == <<"h", "t", "t", "p", "s", ":", "/", "/", "y">>

AmazonUrl == <<"h", "t", "t", "p", "s", ":", "/", "/", "w", "w", "w", ".", "a", "m", "a", "z", "o", "n", ".", "i", "n", "/", "d", "p", "/", "B", "0">>

FlipkartUrl == <<"h", "t", "t", "p", ":", "/", "/", "f", "l", "i", "p", "k", "a", "r", "t", ".", "c", "o", "m", "/", "p", "/", "1">>

UrlValues == {<<>>, FtpUrl, GenericUrl, AmazonUrl, FlipkartUrl}

\* request.get_json(): None, or an object with any of the fields url1, url2
Payloads ==
    {[none |-> TRUE, obj |-> EmptyDict]} \cup
    {[none |-> FALSE, obj |-> o] : o \in UNION {[S -> UrlValues] : S \in SUBSET {"url1", "url2"}}}

Row(th, td) == [th |-> th, td |-> td]

Html(title, price, rows, ftitle, fprice, sections) ==
    [productTitle |-> title, a_price |-> price, techSpec |-> rows,
     span_B_NuCI |-> ftitle, div_30jeq3 |-> fprice, div_1UhVsV |-> sections]

BlankPage == Html(Absent, Absent, <<>>, Absent, Absent, <<>>)

AmazonPhonePage ==
    Html(Element(<<" ", "P", "h", "o", "n", "e", " ", "X", " ">>), Element(<<"$", "4", "9", "9">>),
         <<Row(Element(<<"R", "A", "M">>), Element(<<" ", "8", " ", "G", "B", " ">>)),
           Row(Element(<<"I", "n", "t", "e", "r", "n", "a", "l", " ", "S", "t", "o", "r", "a", "g", "e">>), Element(<<"1", "2", "8", " ", "G", "B">>))>>,
         Absent, Absent, <<>>)

\* a page without a title whose table has a row labelled "error"
AmazonErrorRowPage ==
    Html(Absent, Element(<<"$", "9">>),
         <<Row(Element(<<"e", "r", "r", "o", "r">>), Element(<<"E", "4", "2">>)),
           Row(Element(<<"C", "o", "l", "o", "u", "r">>), Absent)>>,
         Absent, Absent, <<>>)

FlipkartPhonePage ==
    Html(Absent, Absent, <<>>,
         Element(<<"P", "h", "o", "n", "e", " ", "Y">>), Absent,
         << << <<<<"B", "a", "t", "t", "e", "r", "y", " ", "C", "a", "p", "a", "c", "i", "t", "y">>, <<"5", "0", "0", "0", " ", "m", "A", "h">>>>, <<<<"N", "o", "t", "e">>>> >>,
            << <<<<"S", "c", "r", "e", "e", "n", " ", "S", "i", "z", "e">>, <<" ", "6", ".", "1", " ", "i", "n", "c", "h">>>>, <<<<"a">>, <<"b">>, <<"c">>>> >> >>)

RenderedPages == {BlankPage, AmazonPhonePage, AmazonErrorRowPage, FlipkartPhonePage}

\* session.get / render raised (e.g. the 20 s render timeout), or a rendered page
RenderOutcomes ==
    {[raised |-> TRUE, exc |-> "render timeout", html |-> BlankPage]} \cup
    {[raised |-> FALSE, exc |-> "", html |-> h] : h \in RenderedPages}

Soup(h1, meta, lists, title) == [h1 |-> h1, meta |-> meta, lists |-> lists, title |-> title]

EmptySoup == Soup(Absent, Absent, <<>>, Absent)

\* <h1>Widget</h1> with a meta description
WidgetSoup == Soup(Element(<<" ", "W", "i", "d", "g", "e", "t", " ">>), Element(<<"A", " ", "f", "i", "n", "e", " ", "w", "i", "d", "g", "e", "t">>), <<>>, Element(<<"S", "h", "o", "p">>))

ListSoup == Soup(Absent, Absent, << <<<<"f", "a", "s", "t">>, <<" ", "l", "i", "g", "h", "t", " ">>>>, <<>> >>, Element(<<"S", "p", "e", "c", "s">>))

Soups == {EmptySoup, WidgetSoup, ListSoup}

\* requests.get / raise_for_status raised (e.g. the 10 s timeout), or a document
PlainOutcomes ==
    {[raised |-> TRUE, exc |-> "read timeout", soup |-> EmptySoup, nbytes |-> 0]} \cup
    {[raised |-> FALSE, exc |-> "", soup |-> d, nbytes |-> 120] : d \in Soups}

Fetch(pos, url, dynamic, out) ==
    [pos |-> pos, url |-> url,
     fn |-> IF dynamic THEN "scrape_dynamic_features" ELSE "scrape_features",
     out |-> out]

scrape(url, dynamic, out) ==
    IF dynamic THEN scrape_dynamic_features(url, out) ELSE scrape_features(url, out)

Outcomes(dynamic) == IF dynamic THEN RenderOutcomes ELSE PlainOutcomes

(***************************************************************************)
(* State                                                                   *)
(***************************************************************************)
NoReply == Reply(0, EmptyDict)

NoPayload == [none |-> TRUE, obj |-> EmptyDict]

Idle ==
    /\ pc = "idle"
    /\ handler = "none"
    /\ payload = NoPayload
    /\ fetchLog = <<>>
    /\ result1 = EmptyDict
    /\ result2 = EmptyDict
    /\ response = NoReply

Init == Idle /\ arg = <<>> /\ ret = <<>>

\* compare_scrape giving up after a failed url1
compare_scrape_short_circuit(url1, dyn1, out1, url2, dyn2, out2) ==
    LET r1 == scrape(url1, dyn1, out1)
    IN  IF ERROR \in DOMAIN r1
        THEN [result1 |-> r1, result2 |-> EmptyDict,
              log |-> <<Fetch(1, url1, dyn1, out1)>>]
        ELSE [result1 |-> r1, result2 |-> scrape(url2, dyn2, out2),
              log |-> <<Fetch(1, url1, dyn1, out1), Fetch(2, url2, dyn2, out2)>>]

\* lines 111-112 (207): both scrapes run, url1 first, before either result is
\* looked at
compare_scrape(url1, dyn1, out1, url2, dyn2, out2) ==
    [result1 |-> scrape(url1, dyn1, out1),
     result2 |-> scrape(url2, dyn2, out2),
     log |-> <<Fetch(1, url1, dyn1, out1), Fetch(2, url2, dyn2, out2)>>]

\* one whole request served by the handler `name`, whose line 111/112 (207)
\* condition gave dyn1 and dyn2
Serve(name, data, dyn1, dyn2) ==
    /\ handler' = name
    /\ payload' = data
    /\ pc' = "done"
    /\ LET v == compare_validate(data)
       IN  IF ~v.passed
           THEN /\ response' = v.reply
                /\ fetchLog' = <<>>
                /\ result1' = EmptyDict
                /\ result2' = EmptyDict
           ELSE \E out1 \in Outcomes(dyn1), out2 \in Outcomes(dyn2) :
                    LET s == compare_scrape(data.obj["url1"], dyn1, out1,
                                            data.obj["url2"], dyn2, out2)
                    IN  /\ result1' = s.result1
                        /\ result2' = s.result2
                        /\ fetchLog' = s.log
                        /\ response' = compare_reply(s.result1, s.result2)
    /\ UNCHANGED <<arg, ret>>

\* POST /compare handled by the first definition (lines 98-119)
compare ==
    \E data \in Payloads :
        Serve("compare@98", data,
              compare_is_dynamic(dict_get(data.obj, "url1")),
              compare_is_dynamic(dict_get(data.obj, "url2")))

\* POST /compare handled by the second definition (lines 194-214)
compare_redefined ==
    \E data \in Payloads :
        Serve("compare@194", data,
              compare_redefined_is_dynamic(dict_get(data.obj, "url1")),
              compare_redefined_is_dynamic(dict_get(data.obj, "url2")))

Next == compare \/ compare_redefined

Spec == Init /\ [][Next]_vars


(***************************************************************************)
(* normalize_key applied to labels built from at most MaxFrags fragments   *)
(***************************************************************************)
MaxFrags == 2

Fragments ==
    {<<"B", "a", "t", "t", "e", "r", "y", " ">>, <<"s", "t", "o", "r", "a", "g", "e">>, <<"R", "A", "M">>, <<"m", "e", "m", "o", "r", "y">>, <<"I", "n", "t", "e", "r", "n", "a", "l", " ">>, <<"C", "a", "p", "a", "c", "i", "t", "y">>,
     <<"M", "a", "i", "n", " ">>, <<"c", "a", "m", "e", "r", "a">>, <<"S", "c", "r", "e", "e", "n", " ", "S", "i", "z", "e">>, <<"d", "i", "s", "p", "l", "a", "y">>, <<"p", "r", "i", "c", "e">>, <<"P", "r", "o", "d", "u", "c", "t">>,
     <<"e", "r", "r", "o", "r">>, <<" ">>, <<"C", "o", "l", "o", "u", "r">>, <<"3", "g">>}

RECURSIVE LabelsOf(_)
LabelsOf(n) ==
    IF n = 0 THEN {<<>>}
    ELSE LabelsOf(n - 1) \cup {l \o f : l \in LabelsOf(n - 1), f \in Fragments}

InitNorm == Idle /\ pc = "idle" /\ arg \in LabelsOf(MaxFrags) /\ ret = <<>>

normalize_key_call ==
    /\ pc = "idle"
    /\ ret' = normalize_key(arg)
    /\ pc' = "returned"
    /\ UNCHANGED <<handler, payload, fetchLog, result1, result2, response, arg>>

NextNorm == normalize_key_call

SpecNorm == InitNorm /\ [][NextNorm]_vars

(***************************************************************************)
(* scrape_dynamic_features applied to rendered amazon pages whose          *)
(* specification table has at most MaxRows rows                            *)
(***************************************************************************)
MaxRows == 2

FixtureRows ==
    {Row(Element(<<"R", "A", "M">>), Element(<<" ", "8", " ", "G", "B", " ">>)),
     Row(Element(<<"I", "n", "t", "e", "r", "n", "a", "l", " ", "S", "t", "o", "r", "a", "g", "e">>), Element(<<"1", "2", "8", " ", "G", "B">>)),
     Row(Element(<<" ", "M", "e", "m", "o", "r", "y">>), Element(<<"1", "6", " ", "G", "B">>)),
     Row(Element(<<"P", "r", "o", "d", "u", "c", "t", " ", "D", "i", "m", "e", "n", "s", "i", "o", "n", "s">>), Element(<<"1", "5", " ", "c", "m">>)),
     Row(Element(<<"L", "i", "s", "t", " ", "P", "r", "i", "c", "e">>), Element(<<"$", "5", "9", "9">>)),
     Row(Element(<<"C", "o", "l", "o", "u", "r">>), Element(<<"R", "e", "d", " ">>)),
     Row(Absent, Element(<<"o", "r", "p", "h", "a", "n">>)),
     Row(Element(<<"W", "e", "i", "g", "h", "t">>), Absent)}

RECURSIVE RowsOf(_)
RowsOf(n) ==
    IF n = 0 THEN {<<>>}
    ELSE RowsOf(n - 1) \cup {Append(rs, r) : rs \in RowsOf(n - 1), r \in FixtureRows}

AmazonFixtures ==
    {[raised |-> FALSE, exc |-> "",
      html |-> Html(t, p, rs, Absent, Absent, <<>>)] :
        t \in {Absent, Element(<<" ", "P", "h", "o", "n", "e", " ", "X", " ">>)},
        p \in {Absent, Element(<<"$", "4", "9", "9">>)},
        rs \in RowsOf(MaxRows)}

InitAdapter == Idle /\ pc = "idle" /\ arg \in AmazonFixtures /\ ret = <<>>

scrape_dynamic_features_call ==
    /\ pc = "idle"
    /\ ret' = scrape_dynamic_features(AmazonUrl, arg)
    /\ pc' = "returned"
    /\ UNCHANGED <<handler, payload, fetchLog, result1, result2, response, arg>>

NextAdapter == scrape_dynamic_features_call

SpecAdapter == InitAdapter /\ [][NextAdapter]_vars


(***************************************************************************)
(* Properties                                                              *)
(***************************************************************************)
Served == pc = "done" /\ handler # "none"

\* the request passed validation and both scrape calls were made
Scraped == Served /\ fetchLog # <<>>

HasField(k) == ~payload.none /\ k \in DOMAIN payload.obj

HasScheme(u) ==
    \E p \in {<<"h", "t", "t", "p", ":", "/", "/">>, <<"h", "t", "t", "p", "s", ":", "/", "/">>} :
        Len(p) <= Len(u) /\ \A i \in 1..Len(p) : u[i] = p[i]

\* url1 or url2 is absent, empty or without an http(s) scheme
BadField(k) ==
    \/ ~HasField(k)
    \/ payload.obj[k] = <<>>
    \/ ~HasScheme(payload.obj[k])

Result(i) == IF i = 1 THEN result1 ELSE result2

Signalled(i) == ERROR \in DOMAIN Result(i)

\* C1: a request without payload, or with url1 or url2 absent, empty or not
\* starting with http:// or https://, is answered 400 with an error field and
\* no fetch, plain or rendering, is made for either URL.
C1_InvalidRejectedWithoutFetch ==
    (Served /\ (payload.none \/ BadField("url1") \/ BadField("url2")))
        => /\ response.status = 400
           /\ DOMAIN response.body = {"error"}
           /\ fetchLog = <<>>

C1_Witness ==
    /\ Served
    /\ HasField("url1") /\ HasField("url2")
    /\ payload.obj["url1"] = FtpUrl
    /\ payload.obj["url2"] = GenericUrl
    /\ response.status = 400
    /\ fetchLog = <<>>

\* C2: in a validated request, a fetch that raised makes its extraction signal
\* failure with a message naming its URL, and whenever an extraction signalled
\* failure the reply is 400 with a body holding only the error field, which
\* carries the message of the first failing URL in the order url1, url2.
C2_FirstFailureOnly ==
    Scraped =>
        /\ \A i \in {1, 2} :
               fetchLog[i].out.raised =>
                   /\ Signalled(i)
                   /\ str_contains(fetchLog[i].url, Result(i)[ERROR])
                   /\ str_contains(<<fetchLog[i].out.exc>>, Result(i)[ERROR])
        /\ (Signalled(1) \/ Signalled(2)) =>
               /\ response.status = 400
               /\ DOMAIN response.body = {"error"}
               /\ response.body.error =
                      IF Signalled(1) THEN result1[ERROR] ELSE result2[ERROR]

\* url1 was extracted, url2 timed out
C2_Witness ==
    /\ Scraped
    /\ ~Signalled(1)
    /\ fetchLog[2].out.raised
    /\ response.status = 400
    /\ response.body.error = result2[ERROR]

\* C3 as claimed: once the extraction of url1 has failed, url2 is neither
\* fetched nor extracted.
C3_NoSecondFetchAfterFailure ==
    (Scraped /\ Signalled(1)) => \A i \in DOMAIN fetchLog : fetchLog[i].pos # 2

\* C3 as the code has it: url2 is fetched and extracted even when the
\* extraction of url1 has failed; the failure of url1 is terminal for the reply
\* only, which carries the message of url1 whatever url2 returned.
C3_SecondStillFetched ==
    (Served /\ ~(payload.none \/ BadField("url1") \/ BadField("url2"))) =>
        /\ Len(fetchLog) = 2
        /\ fetchLog[1].pos = 1 /\ fetchLog[1].url = payload.obj["url1"]
        /\ fetchLog[2].pos = 2 /\ fetchLog[2].url = payload.obj["url2"]
        /\ Signalled(1) => response = Reply(400, [error |-> result1[ERROR]])

\* url1 failed, url2 was fetched and extracted all the same
C3_Witness ==
    /\ Scraped
    /\ Signalled(1)
    /\ fetchLog[2].pos = 2
    /\ ~fetchLog[2].out.raised
    /\ ~Signalled(2)

IsMarketplace(u) == str_contains(<<"a", "m", "a", "z", "o", "n">>, u) \/ str_contains(<<"f", "l", "i", "p", "k", "a", "r", "t">>, u)

\* C4: in every validated request each URL is routed on its own: an amazon or
\* flipkart URL to the rendering fetch and its adapter, any other URL to the
\* plain fetch and the generic extractor.
C4_RoutedIndependently ==
    Scraped =>
        \A i \in {1, 2} :
            fetchLog[i].fn = IF IsMarketplace(fetchLog[i].url)
                             THEN "scrape_dynamic_features"
                             ELSE "scrape_features"

\* the table as the claim declares it
DeclaredTable ==
    << <<<<"m", "e", "m", "o", "r", "y">>, <<"R", "A", "M">>>>, <<<<"r", "a", "m">>, <<"R", "A", "M">>>>,
       <<<<"i", "n", "t", "e", "r", "n", "a", "l", " ", "s", "t", "o", "r", "a", "g", "e">>, <<"S", "t", "o", "r", "a", "g", "e">>>>, <<<<"s", "t", "o", "r", "a", "g", "e">>, <<"S", "t", "o", "r", "a", "g", "e">>>>,
       <<<<"b", "a", "t", "t", "e", "r", "y", " ", "c", "a", "p", "a", "c", "i", "t", "y">>, <<"B", "a", "t", "t", "e", "r", "y">>>>, <<<<"b", "a", "t", "t", "e", "r", "y">>, <<"B", "a", "t", "t", "e", "r", "y">>>>,
       <<<<"c", "a", "m", "e", "r", "a">>, <<"C", "a", "m", "e", "r", "a">>>>, <<<<"m", "a", "i", "n", " ", "c", "a", "m", "e", "r", "a">>, <<"C", "a", "m", "e", "r", "a">>>>,
       <<<<"d", "i", "s", "p", "l", "a", "y">>, <<"D", "i", "s", "p", "l", "a", "y">>>>, <<<<"s", "c", "r", "e", "e", "n", " ", "s", "i", "z", "e">>, <<"D", "i", "s", "p", "l", "a", "y">>>>,
       <<<<"p", "r", "i", "c", "e">>, <<"P", "r", "i", "c", "e">>>>, <<<<"p", "r", "o", "d", "u", "c", "t">>, <<"P", "r", "o", "d", "u", "c", "t">>>> >>

Trimmed(s) == str_strip(str_lower(s))

Hits(s) == {i \in 1..Len(DeclaredTable) : str_contains(DeclaredTable[i][1], Trimmed(s))}

\* C5: normalize_key returns the canonical name of the first pattern, in
\* declaration order, that occurs in the lowercased trimmed label, and the
\* title-cased label when none occurs; of 'storage' and 'battery', both
\* occurring, the earlier declared 'storage' decides.
C5_FirstDeclaredPatternWins ==
    pc = "returned" =>
        /\ ret = IF Hits(arg) = {} THEN str_title(Trimmed(arg))
                 ELSE DeclaredTable[SetMin(Hits(arg))][2]
        /\ (/\ str_contains(<<"b", "a", "t", "t", "e", "r", "y">>, Trimmed(arg))
            /\ str_contains(<<"s", "t", "o", "r", "a", "g", "e">>, Trimmed(arg))
            /\ ~str_contains(<<"m", "e", "m", "o", "r", "y">>, Trimmed(arg))
            /\ ~str_contains(<<"r", "a", "m">>, Trimmed(arg))) => ret = <<"S", "t", "o", "r", "a", "g", "e">>

C5_Witness ==
    /\ pc = "returned"
    /\ arg = <<"B", "a", "t", "t", "e", "r", "y", " ", "s", "t", "o", "r", "a", "g", "e">>
    /\ ret = <<"S", "t", "o", "r", "a", "g", "e">>

\* C6 as claimed: normalize_key returns a non-empty string for every input.
C6_AlwaysNonEmpty == pc = "returned" => ret # <<>>

\* C6 as the code has it: normalize_key returns a string for every input, and
\* the result is empty exactly when the input is empty or all whitespace.
C6_EmptyOnlyForBlank ==
    pc = "returned" =>
        /\ \A i \in 1..Len(ret) : Len(ret[i]) = 1
        /\ (ret = <<>>) <=> (\A i \in 1..Len(arg) : arg[i] \in Whitespace)

C6_Witness ==
    /\ pc = "returned"
    /\ arg = <<" ", " ">>
    /\ ret = <<>>

\* url i went to the generic extractor and its page was fetched
FetchedPlain(i) ==
    /\ fetchLog[i].fn = "scrape_features"
    /\ ~fetchLog[i].out.raised

\* C7: for a non-marketplace URL whose page is fetched and has a level-1
\* heading, the generic extraction succeeds with Product equal to the heading's
\* text, and /compare answers 200 with that Product when both URLs are such.
C7_ProductIsHeading ==
    Scraped =>
        /\ \A i \in {1, 2} :
               (/\ ~IsMarketplace(fetchLog[i].url)
                /\ FetchedPlain(i)
                /\ fetchLog[i].out.soup.h1.present) =>
                   /\ PRODUCT \in DOMAIN Result(i)
                   /\ Result(i)[PRODUCT] = str_strip(fetchLog[i].out.soup.h1.text)
        /\ (\A i \in {1, 2} :
               /\ ~IsMarketplace(fetchLog[i].url)
               /\ FetchedPlain(i)
               /\ fetchLog[i].out.soup.h1.present) => response.status = 200

\* C8: for every fetched document the generic extractor returns a feature map
\* with at least one entry.
C8_GenericNeverEmpty ==
    Scraped =>
        \A i \in {1, 2} :
            FetchedPlain(i) => (~Signalled(i) /\ Cardinality(DOMAIN Result(i)) >= 1)

Rows == arg.html.techSpec

Complete == {i \in 1..Len(Rows) : Rows[i].th.present /\ Rows[i].td.present}

KeyOf(i) == normalize_key(str_strip(Rows[i].th.text))

TextOr(el, default) == IF el.present THEN str_strip(el.text) ELSE default

\* C9 as claimed: the map has Product and Price, each 'N/A' when its element is
\* absent, every row with both cells is stored under its normalized label with
\* its trimmed value, and rows missing a cell add nothing.
C9_EveryRowStored ==
    pc = "returned" =>
        /\ DOMAIN ret = {PRODUCT, PRICE} \cup {KeyOf(i) : i \in Complete}
        /\ ~arg.html.productTitle.present => ret[PRODUCT] = NA
        /\ ~arg.html.a_price.present => ret[PRICE] = NA
        /\ \A i \in Complete : ret[KeyOf(i)] = str_strip(Rows[i].td.text)

\* C9 as the code has it: the keys are Product, Price and the normalized labels
\* of the rows with both cells ('RAM' gives RAM, 'Internal Storage' gives
\* Storage); a key that several such rows normalize to holds the trimmed value
\* of the last of them, also when the key is Product or Price; otherwise
\* Product and Price hold the trimmed title and price, 'N/A' when absent.
C9_LastRowPerKey ==
    pc = "returned" =>
        /\ DOMAIN ret = {PRODUCT, PRICE} \cup {KeyOf(i) : i \in Complete}
        /\ \A k \in DOMAIN ret :
               LET same == {i \in Complete : KeyOf(i) = k}
               IN  ret[k] = IF same # {} THEN str_strip(Rows[SetMax(same)].td.text)
                            ELSE IF k = PRODUCT THEN TextOr(arg.html.productTitle, NA)
                            ELSE TextOr(arg.html.a_price, NA)
        /\ \A i \in Complete :
               /\ Rows[i].th.text = <<"R", "A", "M">> => <<"R", "A", "M">> \in DOMAIN ret
               /\ Rows[i].th.text = <<"I", "n", "t", "e", "r", "n", "a", "l", " ", "S", "t", "o", "r", "a", "g", "e">> =>
                      (<<"S", "t", "o", "r", "a", "g", "e">> \in DOMAIN ret /\ <<"I", "n", "t", "e", "r", "n", "a", "l", " ", "S", "t", "o", "r", "a", "g", "e">> \notin DOMAIN ret)

C9_Witness ==
    /\ pc = "returned"
    /\ ~arg.html.productTitle.present
    /\ Len(Rows) = 2 /\ Complete = {1, 2}
    /\ Rows[1].th.text = <<"R", "A", "M">>
    /\ Rows[2].th.text = <<"I", "n", "t", "e", "r", "n", "a", "l", " ", "S", "t", "o", "r", "a", "g", "e">>
    /\ DOMAIN ret = {PRODUCT, PRICE, <<"R", "A", "M">>, <<"S", "t", "o", "r", "a", "g", "e">>}
    /\ ret[PRODUCT] = NA
    /\ ret[<<"R", "A", "M">>] = <<"8", " ", "G", "B">>

\* url i was rendered and its adapter ran to its `return data`; scrape_features
\* never reaches its `return features`
Extracted(i) ==
    /\ fetchLog[i].fn = "scrape_dynamic_features"
    /\ ~fetchLog[i].out.raised

\* C10: an extraction that succeeded never yields the key 'error', whatever the
\* labels of the page, and /compare answers 200 with data1 and data2 exactly
\* when both extractions succeeded.
C10_ErrorKeyOnlyOnFailure ==
    Scraped =>
        /\ \A i \in {1, 2} : Extracted(i) <=> ~Signalled(i)
        /\ (Extracted(1) /\ Extracted(2)) <=> response.status = 200
        /\ response.status = 200 => response.body = [data1 |-> result1, data2 |-> result2]

\* a page with a row labelled 'error' is extracted and answered 200
C10_Witness ==
    /\ Scraped
    /\ fetchLog[1].fn = "scrape_dynamic_features"
    /\ ~fetchLog[1].out.raised
    /\ fetchLog[1].out.html = AmazonErrorRowPage
    /\ <<"E", "r", "r", "o", "r">> \in DOMAIN result1
    /\ response.status = 200

=============================================================================
